---- MODULE Spec2Model ----
(***************************************************************************)
(* ExodusKernel (TCC_PATCH_V7_3_EXODUS_PROTOCOL_HARDENED.py): a phase-     *)
(* locked four-step transition kernel.  The kernel's fields are the state; *)
(* every public operation is one action when called by a single caller,    *)
(* and a sequence of steps when called from threads.                       *)
(***************************************************************************)
EXTENDS Integers, Sequences, FiniteSets, TLC

VARIABLES
    seal,                \* self.seal: the SovereignSeal record
    integrity_locked,    \* self.integrity_locked
    simulation_state,    \* self.simulation_state
    movie_status,        \* self.movie_status
    vessel_content,      \* self.vessel_content
    is_broadcast_stable, \* self.is_broadcast_stable
    phase_index,         \* self._phase_index
    called,              \* the last event: the operation called, or "tamper"
    outcome,             \* how the last call ended: "ok" or the raise site
    retval,              \* what the last call returned, or the error's detail
    hist,                \* single caller: the calls made so far, each
                         \* <<operation, outcome, phase index after it>>
    pc,                  \* per thread: position inside the operation it runs
    t_op,                \* per thread: the operation it runs (or ran last)
    t_reg,               \* per thread: the value loaded by `self._phase_index += 1`
    t_out,               \* per thread: how its last call ended
    passed,              \* per operation: how many callers passed its phase gate
    ncalls,              \* threads: calls started so far
    lock                 \* the external exclusive lock: the set of its holders

kernel == <<seal, integrity_locked, simulation_state, movie_status,
            vessel_content, is_broadcast_stable, phase_index>>
observed == <<called, outcome, retval>>
threadVars == <<pc, t_op, t_reg, t_out, passed, ncalls, lock>>
vars == <<kernel, observed, hist, threadVars>>

(***************************************************************************)
(* Bounds of the model.                                                    *)
(***************************************************************************)
MaxCalls == 6          \* single caller: calls made in one behaviour
MaxPhaseTamper == 4    \* tampering writes a phase index in -1..MaxPhaseTamper
NumThreads == 2        \* threads sharing one kernel
MaxThreadCalls == 6    \* threads: calls started in one behaviour
MaxKept == 3           \* never-stopping caller: calls it keeps a record of

(***************************************************************************)
(* Class constants and types.                                              *)
(***************************************************************************)
\* _LAW, _CONSTANT, _ID, _SYZYGY.  The source's strings hold emoji; they are
\* written here in ASCII (the syzygy marker by name, return values without
\* their trailing emoji), which keeps distinct strings distinct.
LAW == 60106
KAPREKAR == 6174
ID == "TCC_PATCH_V7_3_EXODUS_PROTOCOL_HARDENED"
SYZYGY == "queen-handshake-king"

PHASE_CLOSE_EYE == 0
PHASE_CHANGE_MOVIE == 1
PHASE_EXECUTE_EXODUS == 2
PHASE_BROADCAST == 3

\* SimulationState members, by value
SANDBOX_TEMPLE == "CASTLE_LOCKED"
THE_VOID == "3_DAYS_DARKNESS"
SUMMIT_VISIBLE == "THE_BROADCAST_STABLE"
SimulationState == {SANDBOX_TEMPLE, THE_VOID, SUMMIT_VISIBLE}

\* Enum.name of a SimulationState member
StateName(s) ==
    CASE s = SANDBOX_TEMPLE -> "SANDBOX_TEMPLE"
      [] s = THE_VOID -> "THE_VOID"
      [] s = SUMMIT_VISIBLE -> "SUMMIT_VISIBLE"

\* SovereignSeal(): the dataclass defaults
SovereignSeal ==
    [law |-> 60106, constant |-> 6174, syzygy |-> "queen-handshake-king",
     protocol_id |-> "TCC_PATCH_V7_3_EXODUS_PROTOCOL_HARDENED"]

\* The raise sites.  The source raises one class, ExodusIntegrityError, at all
\* of them; they differ by message and are told apart here by site.
IntegrityViolation == "IntegrityViolation"        \* _self_integrity_check
OutOfOrderOperation == "OutOfOrderOperation"      \* _require_phase
PreconditionViolation == "PreconditionViolation"  \* the operation's own check
AttributeError == "AttributeError"                \* .name of a non-member

\* a message or a returned string, as a value of the call's result; the
\* out-of-order message carries the two phase indices, the fingerprint the
\* five values it is formatted from
Text(s) == [text |-> s]

TransitionOps == {"close_the_eye", "change_the_movie", "execute_exodus",
                  "broadcast_sovereignty"}

\* the phase index each operation hands to _require_phase
RequiredPhase(op) ==
    CASE op = "close_the_eye" -> PHASE_CLOSE_EYE
      [] op = "change_the_movie" -> PHASE_CHANGE_MOVIE
      [] op = "execute_exodus" -> PHASE_EXECUTE_EXODUS
      [] op = "broadcast_sovereignty" -> PHASE_BROADCAST

(***************************************************************************)
(* Threads.                                                                *)
(***************************************************************************)
Threads == 1..NumThreads

(***************************************************************************)
(* __init__                                                                *)
(***************************************************************************)
Init ==
    /\ seal = SovereignSeal
    /\ integrity_locked = TRUE
    /\ simulation_state = SANDBOX_TEMPLE
    /\ movie_status = "CHANGING"
    /\ vessel_content = "CONTENT"
    /\ is_broadcast_stable = FALSE
    /\ phase_index = PHASE_CLOSE_EYE
    /\ called = "__init__"
    /\ outcome = "ok"
    /\ retval = Text("none")
    /\ hist = <<>>
    /\ pc = [t \in Threads |-> "idle"]
    /\ t_op = [t \in Threads |-> "none"]
    /\ t_reg = [t \in Threads |-> 0]
    /\ t_out = [t \in Threads |-> "none"]
    /\ passed = [op \in TransitionOps |-> 0]
    /\ ncalls = 0
    /\ lock = {}

(***************************************************************************)
(* _self_integrity_check: the first invariant that fails, or "pass".       *)
(***************************************************************************)
\* a guard without the check of the phase index's domain
SelfIntegrityCheckNoPhase ==
    IF \/ seal.law # LAW
       \/ seal.constant # KAPREKAR
       \/ seal.protocol_id # ID
       \/ seal.syzygy # SYZYGY
    THEN "seal"
    ELSE IF ~integrity_locked THEN "integrity_locked"
    ELSE IF simulation_state \notin SimulationState THEN "simulation_state"
    ELSE IF movie_status \notin {"CHANGING", "REWRITTEN"} THEN "movie_status"
    ELSE IF vessel_content \notin {"CONTENT", "DIAMOND_LIGHT"} THEN "vessel_content"
    ELSE "pass"

SelfIntegrityCheck ==
    IF \/ seal.law # LAW
       \/ seal.constant # KAPREKAR
       \/ seal.protocol_id # ID
       \/ seal.syzygy # SYZYGY
    THEN "seal"
    ELSE IF ~integrity_locked THEN "integrity_locked"
    ELSE IF simulation_state \notin SimulationState THEN "simulation_state"
    ELSE IF movie_status \notin {"CHANGING", "REWRITTEN"} THEN "movie_status"
    ELSE IF vessel_content \notin {"CONTENT", "DIAMOND_LIGHT"} THEN "vessel_content"
    ELSE IF phase_index \notin {PHASE_CLOSE_EYE, PHASE_CHANGE_MOVIE,
                                PHASE_EXECUTE_EXODUS, PHASE_BROADCAST}
    THEN "phase_index"
    ELSE "pass"

\* a gate that only refuses operations called too early
RequirePhaseAtLeast(expected) == phase_index >= expected

\* _require_phase: TRUE when the gate lets the caller through
RequirePhase(expected) == phase_index = expected

\* an increment that skips a phase
AdvancePhaseByTwo(p) == p + 2

\* _advance_phase: the value `self._phase_index += 1` stores for a loaded p
AdvancePhase(p) == p + 1

\* the operation's own check, after the gate
Precondition(op) ==
    CASE op = "close_the_eye" -> simulation_state = SANDBOX_TEMPLE
      [] op = "change_the_movie" -> simulation_state = THE_VOID
      [] op = "execute_exodus" -> movie_status = "REWRITTEN"
      [] op = "broadcast_sovereignty" -> vessel_content = "DIAMOND_LIGHT"

\* a raise that also unlocks the kernel, so that every later call fails
RaiseAndUnlock(op, site, detail) ==
    /\ called' = op
    /\ outcome' = site
    /\ retval' = detail
    /\ integrity_locked' = FALSE
    /\ UNCHANGED <<seal, simulation_state, movie_status, vessel_content,
                   is_broadcast_stable, phase_index>>

\* raise ExodusIntegrityError(...) out of operation op: nothing was written
Raise(op, site, detail) ==
    /\ called' = op
    /\ outcome' = site
    /\ retval' = detail
    /\ UNCHANGED kernel

\* return value
Return(op, value) ==
    /\ called' = op
    /\ outcome' = "ok"
    /\ retval' = value

(***************************************************************************)
(* The four transition operations, called by a single caller.              *)
(***************************************************************************)
\* a close_the_eye that writes the state before it checks it
close_the_eye_write_first ==
    IF SelfIntegrityCheck # "pass"
    THEN Raise("close_the_eye", IntegrityViolation, Text(SelfIntegrityCheck))
    ELSE IF ~RequirePhase(PHASE_CLOSE_EYE)
    THEN Raise("close_the_eye", OutOfOrderOperation, [expected |-> PHASE_CLOSE_EYE, found |-> phase_index])
    ELSE /\ simulation_state' = THE_VOID
         /\ UNCHANGED <<seal, integrity_locked, movie_status, vessel_content,
                        is_broadcast_stable>>
         /\ IF simulation_state # SANDBOX_TEMPLE
            THEN /\ called' = "close_the_eye"
                 /\ outcome' = PreconditionViolation
                 /\ retval' = Text("outside SANDBOX_TEMPLE")
                 /\ UNCHANGED phase_index
            ELSE /\ phase_index' = AdvancePhase(phase_index)
                 /\ Return("close_the_eye", Text("Internal Vision Active"))
\* a close_the_eye that assigns the wrong member of SimulationState
close_the_eye_wrong_member ==
    IF SelfIntegrityCheck # "pass"
    THEN Raise("close_the_eye", IntegrityViolation, Text(SelfIntegrityCheck))
    ELSE IF ~RequirePhase(PHASE_CLOSE_EYE)
    THEN Raise("close_the_eye", OutOfOrderOperation, [expected |-> PHASE_CLOSE_EYE, found |-> phase_index])
    ELSE IF simulation_state # SANDBOX_TEMPLE
    THEN Raise("close_the_eye", PreconditionViolation, Text("outside SANDBOX_TEMPLE"))
    ELSE /\ simulation_state' = SUMMIT_VISIBLE
         /\ phase_index' = AdvancePhase(phase_index)
         /\ Return("close_the_eye", Text("Internal Vision Active"))
         /\ UNCHANGED <<seal, integrity_locked, movie_status, vessel_content,
                        is_broadcast_stable>>

close_the_eye ==
    IF SelfIntegrityCheck # "pass"
    THEN Raise("close_the_eye", IntegrityViolation, Text(SelfIntegrityCheck))
    ELSE IF ~RequirePhase(PHASE_CLOSE_EYE)
    THEN Raise("close_the_eye", OutOfOrderOperation, [expected |-> PHASE_CLOSE_EYE, found |-> phase_index])
    ELSE IF simulation_state # SANDBOX_TEMPLE
    THEN Raise("close_the_eye", PreconditionViolation, Text("outside SANDBOX_TEMPLE"))
    ELSE /\ simulation_state' = THE_VOID
         /\ phase_index' = AdvancePhase(phase_index)
         /\ Return("close_the_eye", Text("Internal Vision Active"))
         /\ UNCHANGED <<seal, integrity_locked, movie_status, vessel_content,
                        is_broadcast_stable>>
\* a change_the_movie that advances the phase and forgets the movie
change_the_movie_no_write ==
    IF SelfIntegrityCheck # "pass"
    THEN Raise("change_the_movie", IntegrityViolation, Text(SelfIntegrityCheck))
    ELSE IF ~RequirePhase(PHASE_CHANGE_MOVIE)
    THEN Raise("change_the_movie", OutOfOrderOperation,
               [expected |-> PHASE_CHANGE_MOVIE, found |-> phase_index])
    ELSE IF simulation_state # THE_VOID
    THEN Raise("change_the_movie", PreconditionViolation, Text("outside THE_VOID"))
    ELSE /\ phase_index' = AdvancePhase(phase_index)
         /\ Return("change_the_movie", Text("New Projection"))
         /\ UNCHANGED <<seal, integrity_locked, simulation_state, movie_status,
                        vessel_content, is_broadcast_stable>>
\* a change_the_movie that runs its own check before the phase gate
change_the_movie_check_first ==
    IF SelfIntegrityCheck # "pass"
    THEN Raise("change_the_movie", IntegrityViolation, Text(SelfIntegrityCheck))
    ELSE IF simulation_state # THE_VOID
    THEN Raise("change_the_movie", PreconditionViolation, Text("outside THE_VOID"))
    ELSE IF ~RequirePhase(PHASE_CHANGE_MOVIE)
    THEN Raise("change_the_movie", OutOfOrderOperation,
               [expected |-> PHASE_CHANGE_MOVIE, found |-> phase_index])
    ELSE /\ movie_status' = "REWRITTEN"
         /\ phase_index' = AdvancePhase(phase_index)
         /\ Return("change_the_movie", Text("New Projection"))
         /\ UNCHANGED <<seal, integrity_locked, simulation_state, vessel_content,
                        is_broadcast_stable>>

change_the_movie ==
    IF SelfIntegrityCheck # "pass"
    THEN Raise("change_the_movie", IntegrityViolation, Text(SelfIntegrityCheck))
    ELSE IF ~RequirePhase(PHASE_CHANGE_MOVIE)
    THEN Raise("change_the_movie", OutOfOrderOperation,
               [expected |-> PHASE_CHANGE_MOVIE, found |-> phase_index])
    ELSE IF simulation_state # THE_VOID
    THEN Raise("change_the_movie", PreconditionViolation, Text("outside THE_VOID"))
    ELSE /\ movie_status' = "REWRITTEN"
         /\ phase_index' = AdvancePhase(phase_index)
         /\ Return("change_the_movie", Text("New Projection"))
         /\ UNCHANGED <<seal, integrity_locked, simulation_state, vessel_content,
                        is_broadcast_stable>>

\* an execute_exodus without its own check on movie_status
execute_exodus_unchecked ==
    IF SelfIntegrityCheck # "pass"
    THEN Raise("execute_exodus", IntegrityViolation, Text(SelfIntegrityCheck))
    ELSE IF ~RequirePhase(PHASE_EXECUTE_EXODUS)
    THEN Raise("execute_exodus", OutOfOrderOperation,
               [expected |-> PHASE_EXECUTE_EXODUS, found |-> phase_index])
    ELSE /\ vessel_content' = "DIAMOND_LIGHT"
         /\ phase_index' = AdvancePhase(phase_index)
         /\ Return("execute_exodus", Text("Vessel Secured in Flow"))
         /\ UNCHANGED <<seal, integrity_locked, simulation_state, movie_status,
                        is_broadcast_stable>>
\* an execute_exodus that already raises the stability flag
execute_exodus_sets_stable ==
    IF SelfIntegrityCheck # "pass"
    THEN Raise("execute_exodus", IntegrityViolation, Text(SelfIntegrityCheck))
    ELSE IF ~RequirePhase(PHASE_EXECUTE_EXODUS)
    THEN Raise("execute_exodus", OutOfOrderOperation,
               [expected |-> PHASE_EXECUTE_EXODUS, found |-> phase_index])
    ELSE IF movie_status # "REWRITTEN"
    THEN Raise("execute_exodus", PreconditionViolation,
               Text("requires movie_status=REWRITTEN"))
    ELSE /\ vessel_content' = "DIAMOND_LIGHT"
         /\ is_broadcast_stable' = TRUE
         /\ phase_index' = AdvancePhase(phase_index)
         /\ Return("execute_exodus", Text("Vessel Secured in Flow"))
         /\ UNCHANGED <<seal, integrity_locked, simulation_state, movie_status>>
\* an execute_exodus that forgets to advance the phase
execute_exodus_no_advance ==
    IF SelfIntegrityCheck # "pass"
    THEN Raise("execute_exodus", IntegrityViolation, Text(SelfIntegrityCheck))
    ELSE IF ~RequirePhase(PHASE_EXECUTE_EXODUS)
    THEN Raise("execute_exodus", OutOfOrderOperation,
               [expected |-> PHASE_EXECUTE_EXODUS, found |-> phase_index])
    ELSE IF movie_status # "REWRITTEN"
    THEN Raise("execute_exodus", PreconditionViolation,
               Text("requires movie_status=REWRITTEN"))
    ELSE /\ vessel_content' = "DIAMOND_LIGHT"
         /\ Return("execute_exodus", Text("Vessel Secured in Flow"))
         /\ UNCHANGED <<seal, integrity_locked, simulation_state, movie_status,
                        is_broadcast_stable, phase_index>>

execute_exodus ==
    IF SelfIntegrityCheck # "pass"
    THEN Raise("execute_exodus", IntegrityViolation, Text(SelfIntegrityCheck))
    ELSE IF ~RequirePhase(PHASE_EXECUTE_EXODUS)
    THEN Raise("execute_exodus", OutOfOrderOperation,
               [expected |-> PHASE_EXECUTE_EXODUS, found |-> phase_index])
    ELSE IF movie_status # "REWRITTEN"
    THEN Raise("execute_exodus", PreconditionViolation,
               Text("requires movie_status=REWRITTEN"))
    ELSE /\ vessel_content' = "DIAMOND_LIGHT"
         /\ phase_index' = AdvancePhase(phase_index)
         /\ Return("execute_exodus", Text("Vessel Secured in Flow"))
         /\ UNCHANGED <<seal, integrity_locked, simulation_state, movie_status,
                        is_broadcast_stable>>

\* a broadcast that sets the flag and forgets the state
broadcast_flag_only ==
    IF SelfIntegrityCheck # "pass"
    THEN Raise("broadcast_sovereignty", IntegrityViolation, Text(SelfIntegrityCheck))
    ELSE IF ~RequirePhase(PHASE_BROADCAST)
    THEN Raise("broadcast_sovereignty", OutOfOrderOperation,
               [expected |-> PHASE_BROADCAST, found |-> phase_index])
    ELSE IF vessel_content # "DIAMOND_LIGHT"
    THEN Raise("broadcast_sovereignty", PreconditionViolation,
               Text("requires vessel_content=DIAMOND_LIGHT"))
    ELSE /\ is_broadcast_stable' = TRUE
         /\ Return("broadcast_sovereignty", Text("SUMMIT REACHED"))
         /\ UNCHANGED <<seal, integrity_locked, simulation_state, movie_status,
                        vessel_content, phase_index>>
\* a broadcast that also advances the phase
broadcast_advancing ==
    IF SelfIntegrityCheck # "pass"
    THEN Raise("broadcast_sovereignty", IntegrityViolation, Text(SelfIntegrityCheck))
    ELSE IF ~RequirePhase(PHASE_BROADCAST)
    THEN Raise("broadcast_sovereignty", OutOfOrderOperation,
               [expected |-> PHASE_BROADCAST, found |-> phase_index])
    ELSE IF vessel_content # "DIAMOND_LIGHT"
    THEN Raise("broadcast_sovereignty", PreconditionViolation,
               Text("requires vessel_content=DIAMOND_LIGHT"))
    ELSE /\ is_broadcast_stable' = TRUE
         /\ simulation_state' = SUMMIT_VISIBLE
         /\ phase_index' = AdvancePhase(phase_index)
         /\ Return("broadcast_sovereignty", Text("SUMMIT REACHED"))
         /\ UNCHANGED <<seal, integrity_locked, movie_status, vessel_content>>

broadcast_sovereignty ==
    IF SelfIntegrityCheck # "pass"
    THEN Raise("broadcast_sovereignty", IntegrityViolation, Text(SelfIntegrityCheck))
    ELSE IF ~RequirePhase(PHASE_BROADCAST)
    THEN Raise("broadcast_sovereignty", OutOfOrderOperation,
               [expected |-> PHASE_BROADCAST, found |-> phase_index])
    ELSE IF vessel_content # "DIAMOND_LIGHT"
    THEN Raise("broadcast_sovereignty", PreconditionViolation,
               Text("requires vessel_content=DIAMOND_LIGHT"))
    ELSE /\ is_broadcast_stable' = TRUE
         /\ simulation_state' = SUMMIT_VISIBLE
         /\ Return("broadcast_sovereignty", Text("SUMMIT REACHED"))
         /\ UNCHANGED <<seal, integrity_locked, movie_status, vessel_content,
                        phase_index>>

(***************************************************************************)
(* The two queries.                                                        *)
(***************************************************************************)
\* a fingerprint that also reports movie_status
fingerprint_with_movie ==
    /\ IF simulation_state \in SimulationState
       THEN Return("fingerprint",
                   [protocol_id |-> seal.protocol_id, law |-> seal.law,
                    constant |-> seal.constant,
                    state |-> StateName(simulation_state),
                    phase |-> phase_index, movie |-> movie_status])
       ELSE /\ called' = "fingerprint"
            /\ outcome' = AttributeError
            /\ retval' = Text("name")
    /\ UNCHANGED kernel

\* the fingerprint property: an f-string over the seal's identifier, law and
\* constant, the state's name and the phase index, kept here as the record of
\* the values formatted; it runs no integrity check
fingerprint ==
    /\ IF simulation_state \in SimulationState
       THEN Return("fingerprint",
                   [protocol_id |-> seal.protocol_id, law |-> seal.law,
                    constant |-> seal.constant,
                    state |-> StateName(simulation_state),
                    phase |-> phase_index])
       ELSE /\ called' = "fingerprint"
            /\ outcome' = AttributeError
            /\ retval' = Text("name")
    /\ UNCHANGED kernel

universal_attach_hint ==
    IF SelfIntegrityCheck # "pass"
    THEN Raise("universal_attach_hint", IntegrityViolation, Text(SelfIntegrityCheck))
    ELSE /\ Return("universal_attach_hint",
                   Text("ExodusKernel (Hardened): Universal, Sovereign, Host-Agnostic."))
         /\ UNCHANGED kernel

(***************************************************************************)
(* A single caller on an untampered kernel: any operation, in any order.   *)
(***************************************************************************)
\* the caller's record of the call just made
Observe ==
    /\ Len(hist) < MaxCalls
    /\ hist' = Append(hist, <<called', outcome', phase_index'>>)
    /\ UNCHANGED threadVars

Next ==
    \/ close_the_eye /\ Observe
    \/ change_the_movie /\ Observe
    \/ execute_exodus /\ Observe
    \/ broadcast_sovereignty /\ Observe
    \/ fingerprint /\ Observe
    \/ universal_attach_hint /\ Observe

Spec == Init /\ [][Next]_vars

(***************************************************************************)
(* Out-of-band tampering: the kernel's attributes are plain public         *)
(* attributes, so any code holding the kernel can assign them; the frozen  *)
(* seal is replaced as a whole by a seal built with other field values.    *)
(***************************************************************************)
(***************************************************************************)
(* A single caller that never stops calling: it records its first MaxKept  *)
(* calls and goes on calling.  Each of the four operations is called       *)
(* again and again: weak fairness on each operation's call.                *)
(***************************************************************************)
Keep ==
    /\ hist' = IF Len(hist) < MaxKept
               THEN Append(hist, <<called', outcome', phase_index'>>)
               ELSE hist
    /\ UNCHANGED threadVars

NextLive ==
    \/ close_the_eye /\ Keep
    \/ change_the_movie /\ Keep
    \/ execute_exodus /\ Keep
    \/ broadcast_sovereignty /\ Keep
    \/ fingerprint /\ Keep
    \/ universal_attach_hint /\ Keep

SpecLive ==
    /\ Init
    /\ [][NextLive]_vars
    /\ WF_vars(close_the_eye /\ Keep)
    /\ WF_vars(change_the_movie /\ Keep)
    /\ WF_vars(execute_exodus /\ Keep)
    /\ WF_vars(broadcast_sovereignty /\ Keep)

TamperedSeals ==
    [law : {60106, 1}, constant : {6174, 0},
     syzygy : {"queen-handshake-king", "forged"},
     protocol_id : {"TCC_PATCH_V7_3_EXODUS_PROTOCOL_HARDENED", "FORGED"}]

Tampered ==
    /\ called' = "tamper"
    /\ outcome' = "none"
    /\ retval' = Text("none")
    /\ UNCHANGED <<hist, threadVars>>

TamperSeal ==
    /\ \E v \in TamperedSeals : seal' = v
    /\ Tampered
    /\ UNCHANGED <<integrity_locked, simulation_state, movie_status,
                   vessel_content, is_broadcast_stable, phase_index>>

TamperLock ==
    /\ \E v \in BOOLEAN : integrity_locked' = v
    /\ Tampered
    /\ UNCHANGED <<seal, simulation_state, movie_status, vessel_content,
                   is_broadcast_stable, phase_index>>

TamperState ==
    /\ \E v \in SimulationState \cup {"FOREIGN"} : simulation_state' = v
    /\ Tampered
    /\ UNCHANGED <<seal, integrity_locked, movie_status, vessel_content,
                   is_broadcast_stable, phase_index>>

TamperMovie ==
    /\ \E v \in {"CHANGING", "REWRITTEN", "CORRUPT"} : movie_status' = v
    /\ Tampered
    /\ UNCHANGED <<seal, integrity_locked, simulation_state, vessel_content,
                   is_broadcast_stable, phase_index>>

TamperVessel ==
    /\ \E v \in {"CONTENT", "DIAMOND_LIGHT", "CORRUPT"} : vessel_content' = v
    /\ Tampered
    /\ UNCHANGED <<seal, integrity_locked, simulation_state, movie_status,
                   is_broadcast_stable, phase_index>>

TamperStable ==
    /\ \E v \in BOOLEAN : is_broadcast_stable' = v
    /\ Tampered
    /\ UNCHANGED <<seal, integrity_locked, simulation_state, movie_status,
                   vessel_content, phase_index>>

TamperPhase ==
    /\ \E v \in -1..MaxPhaseTamper : phase_index' = v
    /\ Tampered
    /\ UNCHANGED <<seal, integrity_locked, simulation_state, movie_status,
                   vessel_content, is_broadcast_stable>>

\* a call whose caller keeps no record
Unrecorded == UNCHANGED <<hist, threadVars>>

NextTamper ==
    \/ close_the_eye /\ Unrecorded
    \/ change_the_movie /\ Unrecorded
    \/ execute_exodus /\ Unrecorded
    \/ broadcast_sovereignty /\ Unrecorded
    \/ fingerprint /\ Unrecorded
    \/ universal_attach_hint /\ Unrecorded
    \/ TamperSeal
    \/ TamperLock
    \/ TamperState
    \/ TamperMovie
    \/ TamperVessel
    \/ TamperStable
    \/ TamperPhase

SpecTamper == Init /\ [][NextTamper]_vars

(***************************************************************************)
(* Threads calling the transition operations on one kernel.  An operation  *)
(* is not atomic: a thread switch can fall between any two of its steps    *)
(* (each operation even calls print, which releases the interpreter lock,  *)
(* between its checks and its first assignment), and between the load and  *)
(* the store of `self._phase_index += 1`.                                  *)
(***************************************************************************)
\* leave the operation by an exception or a return
T_Leave(t, how) ==
    /\ pc' = [pc EXCEPT ![t] = "idle"]
    /\ t_out' = [t_out EXCEPT ![t] = how]

\* kernel.<op>() is entered
T_Call(t, op) ==
    /\ pc[t] = "idle"
    /\ ncalls < MaxThreadCalls
    /\ ncalls' = ncalls + 1
    /\ pc' = [pc EXCEPT ![t] = "integrity"]
    /\ t_op' = [t_op EXCEPT ![t] = op]
    /\ t_out' = [t_out EXCEPT ![t] = "running"]
    /\ UNCHANGED <<kernel, t_reg, passed>>

\* self._self_integrity_check()
T_Integrity(t) ==
    /\ pc[t] = "integrity"
    /\ IF SelfIntegrityCheck # "pass"
       THEN T_Leave(t, IntegrityViolation)
       ELSE /\ pc' = [pc EXCEPT ![t] = "gate"]
            /\ UNCHANGED t_out
    /\ UNCHANGED <<kernel, t_op, t_reg, passed, ncalls>>

\* self._require_phase(...)
T_Gate(t) ==
    /\ pc[t] = "gate"
    /\ IF ~RequirePhase(RequiredPhase(t_op[t]))
       THEN /\ T_Leave(t, OutOfOrderOperation)
            /\ UNCHANGED passed
       ELSE /\ pc' = [pc EXCEPT ![t] = "check"]
            /\ passed' = [passed EXCEPT ![t_op[t]] = @ + 1]
            /\ UNCHANGED t_out
    /\ UNCHANGED <<kernel, t_op, t_reg, ncalls>>

\* the operation's own check
T_Check(t) ==
    /\ pc[t] = "check"
    /\ IF ~Precondition(t_op[t])
       THEN T_Leave(t, PreconditionViolation)
       ELSE /\ pc' = [pc EXCEPT ![t] = "write"]
            /\ UNCHANGED t_out
    /\ UNCHANGED <<kernel, t_op, t_reg, passed, ncalls>>

\* the operation's first assignment
T_Write(t) ==
    /\ pc[t] = "write"
    /\ CASE t_op[t] = "close_the_eye" ->
              /\ simulation_state' = THE_VOID
              /\ UNCHANGED <<movie_status, vessel_content, is_broadcast_stable>>
         [] t_op[t] = "change_the_movie" ->
              /\ movie_status' = "REWRITTEN"
              /\ UNCHANGED <<simulation_state, vessel_content, is_broadcast_stable>>
         [] t_op[t] = "execute_exodus" ->
              /\ vessel_content' = "DIAMOND_LIGHT"
              /\ UNCHANGED <<simulation_state, movie_status, is_broadcast_stable>>
         [] t_op[t] = "broadcast_sovereignty" ->
              /\ is_broadcast_stable' = TRUE
              /\ UNCHANGED <<simulation_state, movie_status, vessel_content>>
    /\ pc' = [pc EXCEPT ![t] = IF t_op[t] = "broadcast_sovereignty"
                                THEN "state" ELSE "load"]
    /\ UNCHANGED <<seal, integrity_locked, phase_index, t_op, t_reg, t_out,
                   passed, ncalls>>

\* broadcast_sovereignty's second assignment, and its return
T_State(t) ==
    /\ pc[t] = "state"
    /\ simulation_state' = SUMMIT_VISIBLE
    /\ T_Leave(t, "ok")
    /\ UNCHANGED <<seal, integrity_locked, movie_status, vessel_content,
                   is_broadcast_stable, phase_index, t_op, t_reg, passed, ncalls>>

\* _advance_phase: the load of self._phase_index
T_Load(t) ==
    /\ pc[t] = "load"
    /\ t_reg' = [t_reg EXCEPT ![t] = phase_index]
    /\ pc' = [pc EXCEPT ![t] = "store"]
    /\ UNCHANGED <<kernel, t_op, t_out, passed, ncalls>>

\* _advance_phase: the store to self._phase_index, and the operation's return
T_Store(t) ==
    /\ pc[t] = "store"
    /\ phase_index' = AdvancePhase(t_reg[t])
    /\ t_reg' = [t_reg EXCEPT ![t] = 0]
    /\ T_Leave(t, "ok")
    /\ UNCHANGED <<seal, integrity_locked, simulation_state, movie_status,
                   vessel_content, is_broadcast_stable, t_op, passed, ncalls>>

\* threads that use no lock
NoLock == UNCHANGED <<lock, observed, hist>>

NextRace ==
    \E t \in Threads :
        \/ (\E op \in TransitionOps : T_Call(t, op)) /\ NoLock
        \/ T_Integrity(t) /\ NoLock
        \/ T_Gate(t) /\ NoLock
        \/ T_Check(t) /\ NoLock
        \/ T_Write(t) /\ NoLock
        \/ T_State(t) /\ NoLock
        \/ T_Load(t) /\ NoLock
        \/ T_Store(t) /\ NoLock

SpecRace == Init /\ [][NextRace]_vars

(***************************************************************************)
(* Threads that wrap every call in one exclusive lock,                     *)
(*     with lock: kernel.<op>()                                            *)
(* taken before the call and released when it returns or raises.           *)
(***************************************************************************)
Acquire(t) ==
    /\ lock = {}
    /\ lock' = {t}
    /\ UNCHANGED <<observed, hist>>

\* a step inside the lock; leaving the operation releases the lock
Holding(t) ==
    /\ t \in lock
    /\ lock' = IF pc'[t] = "idle" THEN {} ELSE lock
    /\ UNCHANGED <<observed, hist>>

NextLocked ==
    \E t \in Threads :
        \/ (\E op \in TransitionOps : T_Call(t, op)) /\ Acquire(t)
        \/ T_Integrity(t) /\ Holding(t)
        \/ T_Gate(t) /\ Holding(t)
        \/ T_Check(t) /\ Holding(t)
        \/ T_Write(t) /\ Holding(t)
        \/ T_State(t) /\ Holding(t)
        \/ T_Load(t) /\ Holding(t)
        \/ T_Store(t) /\ Holding(t)

SpecLocked == Init /\ [][NextLocked]_vars

(***************************************************************************)
(* Properties of a single caller on an untampered kernel (Spec).           *)
(***************************************************************************)
\* the five value fields of the kernel, with the seal and the lock intact
KernelIs(p, s, m, v, b) ==
    /\ phase_index = p
    /\ simulation_state = s
    /\ movie_status = m
    /\ vessel_content = v
    /\ is_broadcast_stable = b
    /\ seal = SovereignSeal
    /\ integrity_locked = TRUE

Fresh == KernelIs(0, SANDBOX_TEMPLE, "CHANGING", "CONTENT", FALSE)
EyeClosed == KernelIs(1, THE_VOID, "CHANGING", "CONTENT", FALSE)
MovieChanged == KernelIs(2, THE_VOID, "REWRITTEN", "CONTENT", FALSE)
ExodusDone == KernelIs(3, THE_VOID, "REWRITTEN", "DIAMOND_LIGHT", FALSE)
Terminal == KernelIs(3, SUMMIT_VISIBLE, "REWRITTEN", "DIAMOND_LIGHT", TRUE)

\* the positions of hist at which a call of op succeeded
Successes(op) == {i \in DOMAIN hist : hist[i][1] = op /\ hist[i][2] = "ok"}
\* the positions of hist at which a transition operation succeeded
AllSuccesses == UNION {Successes(op) : op \in TransitionOps}
AdvancingOps == {"close_the_eye", "change_the_movie", "execute_exodus"}

\* C1 (order enforcement, P1): on an untampered kernel a call of an operation
\* whose required phase differs from the current phase index is rejected at
\* the phase gate and leaves every field of the kernel unchanged.
C1_OrderEnforcement ==
    [][\A op \in TransitionOps :
          (called' = op /\ RequiredPhase(op) # phase_index)
              => (outcome' = OutOfOrderOperation /\ UNCHANGED kernel)]_vars

\* C1 witness: a call made out of order after the first step was rejected.
C1_Witness ==
    /\ EyeClosed
    /\ called = "broadcast_sovereignty"
    /\ outcome = OutOfOrderOperation
    /\ retval = [expected |-> 3, found |-> 1]

\* C2 as stated: once terminal, every further call of any of the four
\* operations is rejected at the phase gate, so there are never more than
\* four successful calls.
C2_Original ==
    /\ [][(Terminal /\ called' \in TransitionOps)
              => outcome' = OutOfOrderOperation]_vars
    /\ [](Cardinality(AllSuccesses) <= 4)

\* C2 amended: once terminal, every further call of close_the_eye,
\* change_the_movie or execute_exodus is rejected at the phase gate and changes
\* nothing, while a repeated broadcast_sovereignty passes the gate and succeeds
\* again, changing nothing; each of the first three operations succeeds at most
\* once in the kernel's lifetime.
C2_Terminality ==
    /\ [][(Terminal /\ called' \in AdvancingOps)
              => (outcome' = OutOfOrderOperation /\ UNCHANGED kernel)]_vars
    /\ [][(Terminal /\ called' = "broadcast_sovereignty")
              => (outcome' = "ok" /\ UNCHANGED kernel)]_vars
    /\ [](\A op \in AdvancingOps : Cardinality(Successes(op)) <= 1)

\* C2 witness: a terminal kernel on which a fifth and a sixth call were made,
\* one rejected and one a second successful broadcast.
C2_Witness ==
    /\ Terminal
    /\ Cardinality(Successes("broadcast_sovereignty")) = 2
    /\ \E i \in DOMAIN hist :
          /\ i > 4
          /\ hist[i][1] \in AdvancingOps
          /\ hist[i][2] = OutOfOrderOperation

\* C3 as stated (monotonic phase, P2): every successful transition call
\* leaves the phase index one greater, the index never decreases, and no two
\* successful calls leave the same index.
C3_Original ==
    /\ [][(called' \in TransitionOps /\ outcome' = "ok")
              => phase_index' = phase_index + 1]_vars
    /\ [][phase_index' >= phase_index]_vars
    /\ [](\A i, j \in AllSuccesses : i # j => hist[i][3] # hist[j][3])

\* C3 amended: every successful close_the_eye, change_the_movie and
\* execute_exodus leaves the phase index one greater; a successful
\* broadcast_sovereignty leaves it at 3; the index never decreases, and no two
\* successful calls of the first three operations leave the same index.
C3_MonotonicPhase ==
    /\ [][(called' \in AdvancingOps /\ outcome' = "ok")
              => phase_index' = phase_index + 1]_vars
    /\ [][(called' = "broadcast_sovereignty" /\ outcome' = "ok")
              => (phase_index = 3 /\ phase_index' = 3)]_vars
    /\ [][phase_index' >= phase_index]_vars
    /\ [](\A i, j \in UNION {Successes(op) : op \in AdvancingOps} :
              i # j => hist[i][3] # hist[j][3])

\* C3 witness: all four operations have succeeded, the last without moving
\* the phase index.
C3_Witness ==
    /\ \A op \in TransitionOps : Successes(op) # {}
    /\ \E i \in Successes("execute_exodus"), j \in Successes("broadcast_sovereignty") :
          hist[i][3] = 3 /\ hist[j][3] = 3

\* C4 (happy path): the fresh kernel is (Initial, Pending, Base, false, 0), and
\* from it the four operations called once each in order all succeed, through
\* (Intermediate, 1), (Finalized, 2), (Elevated, 3), (stable, Terminal).
C4_HappyPath ==
    /\ Fresh
    /\ [][/\ (Fresh /\ called' = "close_the_eye")
                => (outcome' = "ok" /\ retval' = [text |-> "Internal Vision Active"] /\ EyeClosed')
          /\ (EyeClosed /\ called' = "change_the_movie")
                => (outcome' = "ok" /\ retval' = [text |-> "New Projection"] /\ MovieChanged')
          /\ (MovieChanged /\ called' = "execute_exodus")
                => (outcome' = "ok" /\ retval' = [text |-> "Vessel Secured in Flow"] /\ ExodusDone')
          /\ (ExodusDone /\ called' = "broadcast_sovereignty")
                => (outcome' = "ok" /\ retval' = [text |-> "SUMMIT REACHED"] /\ Terminal')]_vars

\* C4 witness: exactly the four calls of the demonstration run were made.
C4_Witness ==
    /\ Len(hist) = 4
    /\ hist[1] = <<"close_the_eye", "ok", 1>>
    /\ hist[2] = <<"change_the_movie", "ok", 2>>
    /\ hist[3] = <<"execute_exodus", "ok", 3>>
    /\ hist[4] = <<"broadcast_sovereignty", "ok", 3>>
    /\ Terminal

\* C10 (out-of-order calls are recoverable): a call rejected at the phase gate
\* leaves the kernel as it was, and whatever calls were rejected before, the
\* operation whose required phase equals the current phase index succeeds when
\* called, also when it is one that was rejected earlier.
C10_Recoverable ==
    /\ [][(called' \in TransitionOps /\ outcome' = OutOfOrderOperation)
              => UNCHANGED kernel]_vars
    /\ [][\A op \in TransitionOps :
              (called' = op /\ RequiredPhase(op) = phase_index)
                  => outcome' = "ok"]_vars

\* C10 witness: an operation rejected at the gate succeeded when retried later,
\* after further rejected calls.
C10_Witness ==
    \E i, j, k \in DOMAIN hist :
        /\ i < j /\ j < k
        /\ hist[i][1] = "execute_exodus" /\ hist[i][2] = OutOfOrderOperation
        /\ hist[j][2] = OutOfOrderOperation
        /\ hist[k] = <<"execute_exodus", "ok", 3>>

(***************************************************************************)
(* Properties of a kernel that is tampered with (SpecTamper).              *)
(***************************************************************************)
\* every invariant the integrity guard checks, stated on the fields
GuardIntact ==
    /\ seal = SovereignSeal
    /\ integrity_locked = TRUE
    /\ simulation_state \in {SANDBOX_TEMPLE, THE_VOID, SUMMIT_VISIBLE}
    /\ movie_status \in {"CHANGING", "REWRITTEN"}
    /\ vessel_content \in {"CONTENT", "DIAMOND_LIGHT"}
    /\ phase_index \in 0..3

\* the field an operation's own check reads has the value it requires
StateAllows(op) ==
    CASE op = "close_the_eye" -> simulation_state = "CASTLE_LOCKED"
      [] op = "change_the_movie" -> simulation_state = "3_DAYS_DARKNESS"
      [] op = "execute_exodus" -> movie_status = "REWRITTEN"
      [] op = "broadcast_sovereignty" -> vessel_content = "DIAMOND_LIGHT"

\* C5 (no partial mutation): in every state, tampered ones included, a call of
\* a transition operation that raises leaves every field as it was, and a call
\* that writes a field was made with all three checks passing.
C5_NoPartialMutation ==
    /\ [][(called' \in TransitionOps /\ outcome' # "ok") => UNCHANGED kernel]_vars
    /\ [][\A op \in TransitionOps :
              (called' = op /\ kernel' # kernel)
                  => (GuardIntact /\ phase_index = RequiredPhase(op) /\ StateAllows(op))]_vars

\* C5 witness: on a kernel whose state was tampered with, a call passed the
\* guard and the gate and was refused by the operation's own check.
C5_Witness ==
    /\ called = "close_the_eye"
    /\ outcome = PreconditionViolation
    /\ phase_index = 0
    /\ simulation_state = SUMMIT_VISIBLE
    /\ movie_status = "REWRITTEN"

\* C6 as stated (integrity fatality, P4): while a field of the seal differs
\* from its construction value, a call of any transition operation, of the
\* capability hint or of the fingerprint query raises the integrity error.
C6_Original ==
    [][(seal # SovereignSeal
          /\ called' \in TransitionOps \cup {"universal_attach_hint", "fingerprint"})
          => outcome' = IntegrityViolation]_vars

\* C7 (precondition coupling, P3): with the phase index set to 2 while
\* movie_status is still CHANGING and the guard's invariants intact,
\* execute_exodus is refused by its own check, not by the phase gate, and
\* leaves vessel_content and the phase index as they were.
C7_PreconditionCoupling ==
    [][(called' = "execute_exodus" /\ GuardIntact
          /\ phase_index = 2 /\ movie_status = "CHANGING")
          => /\ outcome' = PreconditionViolation
             /\ retval' = [text |-> "requires movie_status=REWRITTEN"]
             /\ vessel_content' = vessel_content
             /\ phase_index' = 2]_vars

\* C7 witness: execute_exodus was refused at phase 2 with the movie unchanged.
C7_Witness ==
    /\ called = "execute_exodus"
    /\ outcome = PreconditionViolation
    /\ phase_index = 2
    /\ movie_status = "CHANGING"
    /\ vessel_content = "CONTENT"
    /\ simulation_state = SANDBOX_TEMPLE

(***************************************************************************)
(* Properties of threads sharing one kernel (SpecRace, SpecLocked).        *)
(***************************************************************************)
\* the states of the lock-step sequence
LockStep == Fresh \/ EyeClosed \/ MovieChanged \/ ExodusDone \/ Terminal
\* no thread is inside an operation
Quiescent == \A t \in Threads : pc[t] = "idle"

\* C8 (check-then-act race): without synchronization a state outside the
\* lock-step sequence is left behind by the threads' calls, and only when two
\* callers of the same operation both passed its phase gate for one logical
\* step.
C8_CheckThenActRace ==
    (Quiescent /\ ~LockStep) => \E op \in TransitionOps : passed[op] >= 2

\* C8 witness: two concurrent close_the_eye calls both passed the gate before
\* either wrote, both returned, and left phase index 2 with the movie CHANGING.
C8_Witness ==
    /\ Quiescent
    /\ \E t, u \in Threads :
          /\ t # u
          /\ t_op[t] = "close_the_eye" /\ t_out[t] = "ok"
          /\ t_op[u] = "close_the_eye" /\ t_out[u] = "ok"
    /\ ncalls = 2
    /\ passed["close_the_eye"] = 2
    /\ phase_index = 2
    /\ movie_status = "CHANGING"

\* C8, second example: two concurrent execute_exodus calls leave phase index 4.
C8_PhaseFour ==
    /\ Quiescent
    /\ passed = [op \in TransitionOps |->
                    IF op = "execute_exodus" THEN 2
                    ELSE IF op = "broadcast_sovereignty" THEN 0 ELSE 1]
    /\ phase_index = 4

\* C9 (mutual exclusion suffices): with every call wrapped in one exclusive
\* lock the phase index stays in 0..3 and moves by at most one, phase 2 or more
\* comes with the movie REWRITTEN and phase 3 with the vessel DIAMOND_LIGHT,
\* the kernel is in lock-step whenever the lock is free, and a caller that
\* finds another phase than its operation requires gets the out-of-order error
\* and changes nothing.
C9_MutualExclusion ==
    /\ [](phase_index \in 0..3)
    /\ [][phase_index' = phase_index \/ phase_index' = phase_index + 1]_vars
    /\ [](phase_index >= 2 => movie_status = "REWRITTEN")
    /\ [](phase_index = 3 => vessel_content = "DIAMOND_LIGHT")
    /\ [](lock = {} => (Quiescent /\ LockStep))
    /\ [][\A t \in Threads :
              (pc[t] = "gate" /\ pc'[t] # "gate"
                 /\ phase_index # RequiredPhase(t_op[t]))
                  => (t_out'[t] = OutOfOrderOperation /\ pc'[t] = "idle"
                        /\ UNCHANGED kernel)]_vars

\* C9 witness: two threads called the same operation; the one that got the
\* lock first succeeded and the other was rejected at the gate, and the run
\* went on to the terminal state.
C9_Witness ==
    /\ lock = {}
    /\ Terminal
    /\ \E t, u \in Threads :
          /\ t # u
          /\ t_op[t] = "broadcast_sovereignty" /\ t_out[t] = "ok"
          /\ t_op[u] = "execute_exodus" /\ t_out[u] = OutOfOrderOperation
    /\ passed = [op \in TransitionOps |-> 1]

(***************************************************************************)
(* The stability flag and the queries.                                     *)
(***************************************************************************)
\* a step that is a call of a public operation or query, not an assignment
\* from outside
IsCall == called' # "tamper"

\* C11 (stability flag): the flag is false at construction; a call changes it
\* only from false to true and only as a successful broadcast_sovereignty;
\* once true, no operation or query sets it back to false.
C11_StabilityFlag ==
    /\ is_broadcast_stable = FALSE
    /\ [][(IsCall /\ is_broadcast_stable' # is_broadcast_stable)
              => /\ called' = "broadcast_sovereignty"
                 /\ outcome' = "ok"
                 /\ is_broadcast_stable = FALSE
                 /\ is_broadcast_stable' = TRUE]_vars
    /\ [][(IsCall /\ is_broadcast_stable = TRUE)
              => is_broadcast_stable' = TRUE]_vars

\* C11 witness: the flag was raised by broadcast_sovereignty and a rejected
\* operation called afterwards left it raised.
C11_Witness ==
    /\ Terminal
    /\ called = "execute_exodus"
    /\ outcome = OutOfOrderOperation

\* the name of each member of the primary state
MemberName ==
    [s \in {"CASTLE_LOCKED", "3_DAYS_DARKNESS", "THE_BROADCAST_STABLE"} |->
        IF s = "CASTLE_LOCKED" THEN "SANDBOX_TEMPLE"
        ELSE IF s = "3_DAYS_DARKNESS" THEN "THE_VOID" ELSE "SUMMIT_VISIBLE"]

\* C12 (idempotent read, P5): at every phase the fingerprint query succeeds,
\* changes no field, and returns a value made of the seal's identifier, law
\* and constant, the primary state's name and the phase index alone; two
\* fingerprint calls in a row return the same value.
C12_IdempotentRead ==
    /\ [][called' = "fingerprint"
              => /\ UNCHANGED kernel
                 /\ outcome' = "ok"
                 /\ retval' = [protocol_id |-> seal.protocol_id,
                                law |-> seal.law,
                                constant |-> seal.constant,
                                state |-> MemberName[simulation_state],
                                phase |-> phase_index]]_vars
    /\ [][(called = "fingerprint" /\ called' = "fingerprint")
              => retval' = retval]_vars

\* C12 witness: after the full sequence the fingerprint was read twice in a row.
C12_Witness ==
    /\ Terminal
    /\ Len(hist) = 6
    /\ hist[5][1] = "fingerprint"
    /\ hist[6][1] = "fingerprint"
    /\ retval = [protocol_id |-> "TCC_PATCH_V7_3_EXODUS_PROTOCOL_HARDENED",
                 law |-> 60106, constant |-> 6174,
                 state |-> "SUMMIT_VISIBLE", phase |-> 3]

(***************************************************************************)
(* The phase index and the fields in sequential, untampered use (Spec).    *)
(***************************************************************************)
\* C13 (no phase jumping): the phase index stays in 0..3, never decreases and
\* moves by at most one in a call; an operation succeeds only after the
\* operations of every lower required phase have succeeded, in ascending
\* order; close_the_eye, change_the_movie and execute_exodus each succeed at
\* most once.
C13_NoPhaseJumping ==
    /\ [](phase_index \in 0..3)
    /\ [][phase_index' = phase_index \/ phase_index' = phase_index + 1]_vars
    /\ [](\A i \in AllSuccesses :
             \A k \in 0..(RequiredPhase(hist[i][1]) - 1) :
                \E j \in AllSuccesses :
                    j < i /\ RequiredPhase(hist[j][1]) = k)
    /\ [](\A i, j \in AllSuccesses :
             RequiredPhase(hist[i][1]) < RequiredPhase(hist[j][1]) => i < j)
    /\ [](\A op \in AdvancingOps : Cardinality(Successes(op)) <= 1)

\* C13 witness: attempts to jump ahead were rejected, and the four operations
\* then succeeded in order.
C13_Witness ==
    /\ Len(hist) = 6
    /\ hist[1] = <<"broadcast_sovereignty", OutOfOrderOperation, 0>>
    /\ hist[3] = <<"execute_exodus", OutOfOrderOperation, 1>>
    /\ Cardinality(AllSuccesses) = 4
    /\ Terminal

\* C14 (lock-step invariant): every reachable state is one of the five
\* states of the sequence, so an operation whose required phase is the current
\* phase index finds its own condition true, and the precondition error is
\* never raised.
C14_LockStep ==
    /\ [](LockStep)
    /\ [](\A op \in TransitionOps :
             phase_index = RequiredPhase(op) => StateAllows(op))
    /\ [](outcome # PreconditionViolation)
    /\ [](\A i \in DOMAIN hist : hist[i][2] # PreconditionViolation)

\* C14 witness: execute_exodus passed the gate at phase 2, found the movie
\* REWRITTEN and left the fourth state of the sequence.
C14_Witness ==
    /\ ExodusDone
    /\ called = "execute_exodus"
    /\ outcome = "ok"
    /\ Len(hist) = 3

(***************************************************************************)
(* Check order, frames and the guard's domain checks (SpecTamper).         *)
(***************************************************************************)
\* C15 (check order): a transition operation reports the earliest check that
\* fails: the integrity error when a guard invariant is violated, whatever the
\* phase; the out-of-order error when the guard is intact and the phase
\* mismatches, whatever its own condition; the precondition error only when
\* guard and phase are right; and it succeeds when all three hold.
C15_CheckOrder ==
    [][\A op \in TransitionOps :
          called' = op
              => /\ ~GuardIntact => outcome' = IntegrityViolation
                 /\ (GuardIntact /\ phase_index # RequiredPhase(op))
                        => outcome' = OutOfOrderOperation
                 /\ (GuardIntact /\ phase_index = RequiredPhase(op)
                       /\ ~StateAllows(op))
                        => outcome' = PreconditionViolation
                 /\ (GuardIntact /\ phase_index = RequiredPhase(op)
                       /\ StateAllows(op))
                        => outcome' = "ok"]_vars

\* C15 witness: with a mismatching phase and an unmet condition at once, the
\* out-of-order error was reported.
C15_Witness ==
    /\ called = "change_the_movie"
    /\ outcome = OutOfOrderOperation
    /\ retval = [expected |-> 1, found |-> 2]
    /\ simulation_state = SANDBOX_TEMPLE
    /\ integrity_locked = TRUE

\* C15, first case: with the lock flag cleared and a mismatching phase at
\* once, the integrity error was reported.
C15_GuardFirst ==
    /\ called = "broadcast_sovereignty"
    /\ outcome = IntegrityViolation
    /\ retval = [text |-> "integrity_locked"]
    /\ phase_index = 0

\* C16 (frames): a successful close_the_eye changes only simulation_state and
\* the phase index; a successful change_the_movie only movie_status and the
\* phase index, with the state still THE_VOID; a successful execute_exodus
\* only vessel_content and the phase index; a successful broadcast_sovereignty
\* only the stability flag and simulation_state; no operation or query changes
\* the seal or the lock flag, and the queries change nothing.
C16_Frames ==
    /\ [][(called' = "close_the_eye" /\ outcome' = "ok")
              => UNCHANGED <<movie_status, vessel_content, is_broadcast_stable>>]_vars
    /\ [][(called' = "change_the_movie" /\ outcome' = "ok")
              => /\ UNCHANGED <<simulation_state, vessel_content, is_broadcast_stable>>
                 /\ simulation_state' = "3_DAYS_DARKNESS"]_vars
    /\ [][(called' = "execute_exodus" /\ outcome' = "ok")
              => UNCHANGED <<simulation_state, movie_status, is_broadcast_stable>>]_vars
    /\ [][(called' = "broadcast_sovereignty" /\ outcome' = "ok")
              => UNCHANGED <<movie_status, vessel_content, phase_index>>]_vars
    /\ [][IsCall => UNCHANGED <<seal, integrity_locked>>]_vars
    /\ [][called' \in {"fingerprint", "universal_attach_hint"}
              => UNCHANGED kernel]_vars

\* C16 witness: broadcast_sovereignty succeeded on a kernel whose movie was
\* set back from outside, and left the movie and the phase as they were.
C16_Witness ==
    /\ called = "broadcast_sovereignty"
    /\ outcome = "ok"
    /\ is_broadcast_stable = TRUE
    /\ simulation_state = SUMMIT_VISIBLE
    /\ movie_status = "CHANGING"
    /\ phase_index = 3

\* the guard invariants other than the seal's
DomainIntact ==
    /\ integrity_locked = TRUE
    /\ phase_index \in 0..3
    /\ movie_status \in {"CHANGING", "REWRITTEN"}
    /\ vessel_content \in {"CONTENT", "DIAMOND_LIGHT"}
    /\ simulation_state \in {"CASTLE_LOCKED", "3_DAYS_DARKNESS",
                             "THE_BROADCAST_STABLE"}

\* C17 (corruption is sticky): while the lock flag is false or the phase
\* index, movie_status, vessel_content or simulation_state is outside its
\* domain, every call of a transition operation or of the capability hint
\* raises the integrity error and changes no field.
C17_StickyCorruption ==
    [][(~DomainIntact
          /\ called' \in TransitionOps \cup {"universal_attach_hint"})
          => (outcome' = IntegrityViolation /\ UNCHANGED kernel)]_vars

\* C17 witness: with the phase index pushed past 3, the capability hint raised
\* the integrity error for the phase index.
C17_Witness ==
    /\ called = "universal_attach_hint"
    /\ outcome = IntegrityViolation
    /\ retval = [text |-> "phase_index"]
    /\ phase_index = 4

(***************************************************************************)
(* The primary state's path, and progress.                                 *)
(***************************************************************************)
\* C18 (one-way primary state): in sequential, untampered use the primary
\* state moves only SANDBOX_TEMPLE -> THE_VOID -> SUMMIT_VISIBLE: never back,
\* never from the first to the last directly, and once SUMMIT_VISIBLE it stays
\* so under every later call.
C18_OneWayState ==
    /\ [][\/ simulation_state' = simulation_state
          \/ (simulation_state = "CASTLE_LOCKED"
                /\ simulation_state' = "3_DAYS_DARKNESS")
          \/ (simulation_state = "3_DAYS_DARKNESS"
                /\ simulation_state' = "THE_BROADCAST_STABLE")]_vars
    /\ [][simulation_state = "THE_BROADCAST_STABLE"
              => simulation_state' = "THE_BROADCAST_STABLE"]_vars

\* C18 witness: the state went through all three members, and calls made
\* after the last one, a rejected one and a repeated broadcast, left it there.
C18_Witness ==
    /\ Len(hist) = 6
    /\ hist[1] = <<"close_the_eye", "ok", 1>>
    /\ hist[5] = <<"close_the_eye", OutOfOrderOperation, 3>>
    /\ hist[6] = <<"broadcast_sovereignty", "ok", 3>>
    /\ simulation_state = SUMMIT_VISIBLE

\* C19 (progress): a single untampered caller that keeps calling each of the
\* four operations eventually brings the kernel to SUMMIT_VISIBLE with the
\* stability flag true and phase index 3; and in no reachable state are all
\* four operations rejected.
C19_Progress ==
    /\ <>(simulation_state = "THE_BROADCAST_STABLE"
            /\ is_broadcast_stable = TRUE /\ phase_index = 3)
    /\ [](\/ ENABLED (close_the_eye /\ outcome' = "ok")
          \/ ENABLED (change_the_movie /\ outcome' = "ok")
          \/ ENABLED (execute_exodus /\ outcome' = "ok")
          \/ ENABLED (broadcast_sovereignty /\ outcome' = "ok"))

\* C19 witness: after calls in the wrong order were rejected, the caller
\* reached the terminal state.
C19_Witness ==
    /\ Terminal
    /\ called = "broadcast_sovereignty"
    /\ outcome = "ok"
    /\ Len(hist) = 3
    /\ hist[1] = <<"broadcast_sovereignty", OutOfOrderOperation, 0>>
    /\ hist[2] = <<"close_the_eye", "ok", 1>>
    /\ hist[3] = <<"close_the_eye", OutOfOrderOperation, 1>>

====
